---------------------------- MODULE Spec2Model ----------------------------
(***************************************************************************)
(* Model of source/main.c of 3ds.md: the bounded note store, its           *)
(* truncating copy and line append, the one-file-per-note persistence and  *)
(* the Menu / NoteList / ViewNote controller run once per frame.           *)
(*                                                                         *)
(* Strings are sequences of bytes (small integers); a C string is the part *)
(* of a buffer before its first 0 byte.  The storage directory is the      *)
(* sequence of its entries in readdir order.                               *)
(***************************************************************************)
EXTENDS Integers, Sequences, FiniteSets, TLC

VARIABLES
    pc,                 \* position in main: "load", "loop" or "cleanup"
    running,            \* last value returned by aptMainLoop()
    fs,                 \* sdmc:/3ds.md/ : [exists, locked, entries]
    notes,              \* static Note notes[MAX_NOTES]
    note_count,
    selectedMenu,
    selectedNote,
    mode,
    button,             \* result of the last frame's swkbdInputText, "-" if not called
    text,               \* the string that prompt left in currentNoteTitle or
                        \* currentNoteContent, <<>> if not called
    saved,              \* outcome of the last frame's save_note: "none", "ok", "fail"
    justCreated,        \* history: ViewNote was entered by New Note and not left since
    touched,            \* history: indices of the notes created or appended to
    allSaved,           \* history: every save_note so far opened its file
    creates,            \* history: number of notes created
    appends,            \* history: number of accepted add-line prompts
    call                \* the helper called directly, its arguments and its result

vars == <<pc, running, fs, notes, note_count, selectedMenu, selectedNote, mode,
          button, text, saved,
          justCreated, touched, allSaved, creates, appends, call>>

progVars == <<fs, notes, note_count, selectedMenu, selectedNote, mode>>

histVars == <<justCreated, touched, allSaved, creates, appends>>

---------------------------------------------------------------------------
(* Program constants *)

MAX_NOTES == 10
NOTE_CONTENT_LEN == 1024
TITLE_LEN == 32

(* '\n' *)
NL == 10

Keys == {"KEY_UP", "KEY_DOWN", "KEY_A", "KEY_B", "KEY_START"}


---------------------------------------------------------------------------
(* Bounds of the model *)

\* notes created in one run
MaxCreates == 1
\* accepted add-line prompts in one run
MaxAppends == 1

Rep(b, n) == [i \in 1..n |-> b]

Min(a, b) == IF a < b THEN a ELSE b

\* "a", "x", "y" and 31 times "b"
strA == <<97>>
strX == <<120>>
strY == <<121>>
T31 == Rep(98, TITLE_LEN - 1)

\* titles the title prompt can return (at most sizeof(currentNoteTitle)-1 bytes)
TitleInputs == { <<>>, strA, T31 }

\* lines the add-line prompt can return (at most sizeof(currentNoteContent)-1 bytes)
TextInputs == { <<>>, strX }

\* what the two-button title prompt can return: OK with any title, or Cancel
TitlePrompt ==
    {<<"SWKBD_BUTTON_RIGHT", t>> : t \in TitleInputs} \cup {<<"SWKBD_BUTTON_LEFT", strA>>}

\* what the add-line prompt can return: Add with any line, or Cancel
LinePrompt ==
    {<<"SWKBD_BUTTON_RIGHT", t>> : t \in TextInputs} \cup {<<"SWKBD_BUTTON_LEFT", strX>>}

Reg(name, data) == [d_name |-> name, d_type |-> "DT_REG", readable |-> TRUE, data |-> data]
Unreadable(name, data) == [d_name |-> name, d_type |-> "DT_REG", readable |-> FALSE, data |-> data]
SubDir(name) == [d_name |-> name, d_type |-> "DT_DIR", readable |-> TRUE, data |-> <<>>]

\* files "c<i>" with one-byte or empty bodies
Small(i) == Reg(<<99, 48 + i>>, IF i % 2 = 0 THEN <<>> ELSE strY)

\* the states of the SD card the program can start on: the notes directory
\* missing, empty, or holding entries; locked: the card is write-protected
InitialDisks ==
    { [exists |-> FALSE, locked |-> FALSE, entries |-> <<>>],
      [exists |-> TRUE,  locked |-> FALSE, entries |-> <<>>],
      [exists |-> TRUE,  locked |-> FALSE, entries |->
          << Reg(strA, strX), SubDir(<<100>>), Unreadable(<<117>>, strX),
             Reg(Rep(98, TITLE_LEN + 1), <<121, 0, 122>>) >>],
      [exists |-> TRUE,  locked |-> FALSE, entries |->
          << Reg(strA, Rep(120, NOTE_CONTENT_LEN - 3)) >>],
      [exists |-> TRUE,  locked |-> FALSE, entries |->
          << Reg(strY, Rep(120, NOTE_CONTENT_LEN + 1)) >>],
      [exists |-> TRUE,  locked |-> TRUE,  entries |-> << Reg(strA, strY) >>],
      [exists |-> TRUE,  locked |-> FALSE, entries |->
          [i \in 1..(MAX_NOTES - 1) |-> Small(i)]],
      [exists |-> TRUE,  locked |-> FALSE, entries |->
          [i \in 1..(MAX_NOTES + 2) |-> Small(i)]] }

---------------------------------------------------------------------------
(* Helper functions *)

\* strlen: the bytes of a buffer before its first 0
CStr(s) ==
    LET z == {i \in 1..Len(s) : s[i] = 0}
    IN  IF z = {} THEN s
        ELSE SubSeq(s, 1, (CHOOSE i \in z : \A j \in z : i <= j) - 1)

\* safe_string_copy leaving no room for the terminator
safe_string_copy_NoTerminatorRoom(dest, src, dest_size) ==
    IF dest_size = 0 THEN dest
    ELSE LET src_len  == Len(src)
             copy_len == IF src_len < dest_size THEN src_len ELSE dest_size
         IN  SubSeq(src, 1, copy_len)

\* the C string left in dest by safe_string_copy(dest, src, dest_size)
safe_string_copy(dest, src, dest_size) ==
    IF dest_size = 0 THEN dest
    ELSE LET src_len  == Len(src)
             copy_len == IF src_len < dest_size - 1 THEN src_len ELSE dest_size - 1
         IN  SubSeq(src, 1, copy_len)

\* append_to_note with the room test off by one (> for >=)
append_to_note_OffByOne(content, new_content) ==
    LET current_len == Len(content)
        new_len     == Len(new_content)
    IN  IF current_len + new_len + 2 > NOTE_CONTENT_LEN THEN content
        ELSE LET withNl == IF current_len > 0 THEN content \o <<NL>> ELSE content
                 cur    == Len(withNl)
             IN  withNl \o safe_string_copy(<<>>, new_content, NOTE_CONTENT_LEN - cur)

\* append_to_note copying to the start of the content
append_to_note_AtStart(content, new_content) ==
    LET current_len == Len(content)
        new_len     == Len(new_content)
    IN  IF current_len + new_len + 2 >= NOTE_CONTENT_LEN THEN content
        ELSE safe_string_copy(<<>>, new_content, NOTE_CONTENT_LEN)

\* the content left in note->content by append_to_note(note, new_content)
append_to_note(content, new_content) ==
    LET current_len == Len(content)
        new_len     == Len(new_content)
    IN  IF current_len + new_len + 2 >= NOTE_CONTENT_LEN THEN content
        ELSE LET withNl == IF current_len > 0 THEN content \o <<NL>> ELSE content
                 cur    == Len(withNl)
             IN  withNl \o safe_string_copy(<<>>, new_content, NOTE_CONTENT_LEN - cur)

---------------------------------------------------------------------------
(* File operations *)

\* the directory after ensure_notes_directory; mk: mkdir succeeds
ensure_notes_directory(disk, mk) ==
    IF disk.exists THEN disk ELSE [disk EXCEPT !.exists = mk]

EmptyNote == [title |-> <<>>, content |-> <<>>]

\* the entry test without its d_type test
Loadable_AnyType(entry) == entry.readable

\* the entry is a regular file and fopen(filepath, "rb") opens it
Loadable(entry) == entry.d_type = "DT_REG" /\ entry.readable

\* the read filling the whole content buffer, the terminator's byte included
ReadNote_WholeBuffer(entry, old) ==
    [title   |-> safe_string_copy(old.title, entry.d_name, TITLE_LEN),
     content |-> CStr(SubSeq(entry.data, 1, Min(Len(entry.data), NOTE_CONTENT_LEN)))]

\* the note that the body of the loop reads from an entry into the slot old
ReadNote(entry, old) ==
    [title   |-> safe_string_copy(old.title, entry.d_name, TITLE_LEN),
     content |-> CStr(SubSeq(entry.data, 1, Min(Len(entry.data), NOTE_CONTENT_LEN - 1)))]

RECURSIVE LoadFrom(_, _, _, _)
\* the while loop of load_notes from entry i on
LoadFrom(entries, i, ns, n) ==
    IF i > Len(entries) \/ ~(n < MAX_NOTES) THEN [notes |-> ns, note_count |-> n]
    ELSE LET entry == entries[i]
         IN  IF Loadable(entry)
             THEN LoadFrom(entries, i + 1, [ns EXCEPT ![n] = ReadNote(entry, ns[n])], n + 1)
             ELSE LoadFrom(entries, i + 1, ns, n)

\* notes and note_count after load_notes on the directory (already ensured)
load_notes(disk, ns) ==
    IF ~disk.exists THEN [notes |-> ns, note_count |-> 0]
    ELSE LoadFrom(disk.entries, 1, ns, 0)

EntryIndex(entries, name) ==
    IF \E i \in 1..Len(entries) : entries[i].d_name = name
    THEN CHOOSE i \in 1..Len(entries) : entries[i].d_name = name
    ELSE 0

\* fopen(filepath, "wb") succeeds: the directory is there, the card can be
\* written and the path names no directory
CanOpenForWrite(disk, title) ==
    /\ disk.exists
    /\ ~disk.locked
    /\ Len(title) > 0
    /\ LET i == EntryIndex(disk.entries, title)
       IN  i = 0 \/ disk.entries[i].d_type = "DT_REG"

\* save_note opening its file in append mode ("ab" for "wb")
save_note_AppendMode(disk, title, content, mk) ==
    LET d == ensure_notes_directory(disk, mk)
        i == EntryIndex(d.entries, title)
    IN  IF ~CanOpenForWrite(d, title) THEN d
        ELSE IF i = 0
             THEN [d EXCEPT !.entries = Append(d.entries, Reg(title, content))]
             ELSE [d EXCEPT !.entries[i].data = @ \o content]

\* save_note opening its file without creating it ("r+b" for "wb")
save_note_NoCreate(disk, title, content, mk) ==
    LET d == ensure_notes_directory(disk, mk)
        i == EntryIndex(d.entries, title)
    IN  IF ~CanOpenForWrite(d, title) \/ i = 0 THEN d
        ELSE [d EXCEPT !.entries[i].data = content]

\* the directory after save_note(title, content); mk: mkdir succeeds
save_note(disk, title, content, mk) ==
    LET d == ensure_notes_directory(disk, mk)
        i == EntryIndex(d.entries, title)
    IN  IF ~CanOpenForWrite(d, title) THEN d
        ELSE IF i = 0
             THEN [d EXCEPT !.entries = Append(d.entries, Reg(title, content))]
             ELSE [d EXCEPT !.entries[i].data = content]

\* whether that save_note opened its file
SaveOutcome(disk, title, mk) ==
    IF CanOpenForWrite(ensure_notes_directory(disk, mk), title) THEN "ok" ELSE "fail"

---------------------------------------------------------------------------
(* The pieces of one pass of the main loop *)

\* the break without its mode test
ShouldBreak_AnyMode(m, k) == "KEY_START" \in k

\* the break before the mode handlers
ShouldBreak(m, k) == m = "MODE_MENU" /\ "KEY_START" \in k

\* selectedMenu after the up and down handlers of Menu
MenuNav(sm, k) ==
    LET up == IF "KEY_UP" \in k THEN (sm - 1 + 2) % 2 ELSE sm
    IN  IF "KEY_DOWN" \in k THEN (up + 1) % 2 ELSE up

\* the creation condition without its capacity test
CanCreate_NoCapacityTest(b, title, n) ==
    b = "SWKBD_BUTTON_RIGHT" /\ Len(title) > 0

\* the creation condition without its empty-title test
CanCreate_AllowEmpty(b, title, n) ==
    b = "SWKBD_BUTTON_RIGHT" /\ n < MAX_NOTES

\* the condition under which New Note creates a note
CanCreate(b, title, n) ==
    b = "SWKBD_BUTTON_RIGHT" /\ Len(title) > 0 /\ n < MAX_NOTES

\* the creation branch selecting after the increment of note_count
CreateNote_SelectAfterIncrement(ns, n, disk, title, mk) ==
    [notes        |-> [ns EXCEPT ![n] =
                          [title   |-> safe_string_copy(ns[n].title, title, TITLE_LEN),
                           content |-> <<>>]],
     fs           |-> save_note(disk, title, <<>>, mk),
     selectedNote |-> n + 1,
     note_count   |-> n + 1,
     mode         |-> "MODE_VIEW_NOTE"]

\* the creation branch without its save_note call
CreateNote_NoSave(ns, n, disk, title, mk) ==
    [notes        |-> [ns EXCEPT ![n] =
                          [title   |-> safe_string_copy(ns[n].title, title, TITLE_LEN),
                           content |-> <<>>]],
     fs           |-> disk,
     selectedNote |-> n,
     note_count   |-> n + 1,
     mode         |-> "MODE_VIEW_NOTE"]

\* the body of the creation branch of New Note
CreateNote(ns, n, disk, title, mk) ==
    [notes        |-> [ns EXCEPT ![n] =
                          [title   |-> safe_string_copy(ns[n].title, title, TITLE_LEN),
                           content |-> <<>>]],
     fs           |-> save_note(disk, title, <<>>, mk),
     selectedNote |-> n,
     note_count   |-> n + 1,
     mode         |-> "MODE_VIEW_NOTE"]

\* the View Notes branch without its note_count > 0 test
ViewNotes_Unguarded(m, sel, n) ==
    [mode |-> "MODE_NOTE_LIST", selectedNote |-> 0]

\* the View Notes branch without its selectedNote = 0
ViewNotes_KeepSelection(m, sel, n) ==
    IF n > 0 THEN [mode |-> "MODE_NOTE_LIST", selectedNote |-> sel]
    ELSE [mode |-> m, selectedNote |-> sel]

\* the View Notes branch of Menu
ViewNotes(m, sel, n) ==
    IF n > 0 THEN [mode |-> "MODE_NOTE_LIST", selectedNote |-> 0]
    ELSE [mode |-> m, selectedNote |-> sel]

\* C's % : the remainder has the sign of the dividend
CRem(a, b) == IF a >= 0 THEN a % b ELSE -((-a) % b)

\* the up and down handlers without their wrap-around
ListNav_NoWrap(sel, n, k) ==
    LET up == IF "KEY_UP" \in k THEN sel - 1 ELSE sel
    IN  {IF "KEY_DOWN" \in k THEN up + 1 ELSE up}

\* the values selectedNote can take after the up and down handlers of
\* NoteList; a remainder by zero is undefined and may leave any value
ListNav(sel, n, k) ==
    IF k \cap {"KEY_UP", "KEY_DOWN"} # {} /\ n = 0 THEN -1..MAX_NOTES
    ELSE LET up == IF "KEY_UP" \in k THEN CRem(sel - 1 + n, n) ELSE sel
         IN  {IF "KEY_DOWN" \in k THEN CRem(up + 1, n) ELSE up}

\* mode after the back and confirm handlers of NoteList
ListMode(m, sel, k) ==
    LET back == IF "KEY_B" \in k THEN "MODE_MENU" ELSE m
    IN  IF "KEY_A" \in k /\ sel >= 0 THEN "MODE_VIEW_NOTE" ELSE back

\* mode after the back handler of ViewNote
ViewBack(m, sel, n, k) ==
    IF "KEY_B" \in k
    THEN IF sel >= n THEN "MODE_MENU" ELSE "MODE_NOTE_LIST"
    ELSE m

\* the add-line branch taken whatever button closed the prompt
LineAccepted_AnyButton(b) == TRUE

\* the condition under which the add-line prompt's text is appended
LineAccepted(b) == b = "SWKBD_BUTTON_RIGHT"

\* the accepted branch appending to every note that has the selected title
AppendToSelected_ByTitle(ns, disk, sel, line, mk) ==
    LET ns2 == [i \in DOMAIN ns |->
                   IF ns[i].title = ns[sel].title
                   THEN [ns[i] EXCEPT !.content = append_to_note(@, line)]
                   ELSE ns[i]]
    IN  [notes |-> ns2,
         fs    |-> save_note(disk, ns2[sel].title, ns2[sel].content, mk)]

\* the accepted branch saving before it appends
AppendToSelected_SaveFirst(ns, disk, sel, line, mk) ==
    [notes |-> [ns EXCEPT ![sel].content = append_to_note(@, line)],
     fs    |-> save_note(disk, ns[sel].title, ns[sel].content, mk)]

\* the accepted branch of the add-line prompt
AppendToSelected(ns, disk, sel, line, mk) ==
    LET ns2 == [ns EXCEPT ![sel].content = append_to_note(@, line)]
    IN  [notes |-> ns2,
         fs    |-> save_note(disk, ns2[sel].title, ns2[sel].content, mk)]

\* mkdir is only attempted while the directory is missing
MkChoices == IF fs.exists THEN {TRUE} ELSE BOOLEAN

---------------------------------------------------------------------------
(* Actions *)

\* no helper has been called directly
NoCall == [fn |-> "none"]

Init ==
    /\ pc = "load"
    /\ running = TRUE
    /\ fs \in InitialDisks
    /\ notes = [i \in 0..(MAX_NOTES - 1) |-> EmptyNote]
    /\ note_count = 0
    /\ selectedMenu = 0
    /\ selectedNote = -1
    /\ mode = "MODE_MENU"
    /\ button = "-"
    /\ text = <<>>
    /\ saved = "none"
    /\ justCreated = FALSE
    /\ touched = {}
    /\ allSaved = TRUE
    /\ creates = 0
    /\ appends = 0
    /\ call = NoCall

\* load_notes(), called once before the main loop
Load ==
    /\ pc = "load"
    /\ \E mk \in MkChoices :
          LET d == ensure_notes_directory(fs, mk)
              r == load_notes(d, notes)
          IN  /\ fs' = d
              /\ notes' = r.notes
              /\ note_count' = r.note_count
    /\ pc' = "loop"
    /\ UNCHANGED <<running, selectedMenu, selectedNote, mode, button, text, saved,
                   histVars, call>>

\* aptMainLoop() returns false: the loop ends without running a frame
AptClose ==
    /\ pc = "loop"
    /\ running' = FALSE
    /\ pc' = "cleanup"
    /\ UNCHANGED <<progVars, button, text, saved, histVars, call>>

NoPrompt == button' = "-" /\ text' = <<>> /\ saved' = "none"

\* the Menu handlers with keys k
MenuBody(k) ==
      /\ selectedMenu' = MenuNav(selectedMenu, k)
      /\ IF "KEY_A" \in k /\ selectedMenu' = 0
         THEN \E p \in TitlePrompt :
                /\ button' = p[1]
                /\ text' = p[2]
                /\ IF CanCreate(p[1], p[2], note_count)
                   THEN \E mk \in MkChoices :
                        LET c == CreateNote(notes, note_count, fs, p[2], mk)
                        IN  /\ creates < MaxCreates
                            /\ notes' = c.notes
                            /\ fs' = c.fs
                            /\ selectedNote' = c.selectedNote
                            /\ note_count' = c.note_count
                            /\ mode' = c.mode
                            /\ saved' = SaveOutcome(fs, p[2], mk)
                            /\ justCreated' = TRUE
                            /\ touched' = touched \cup {note_count}
                            /\ allSaved' = (allSaved /\ saved' = "ok")
                            /\ creates' = creates + 1
                            /\ UNCHANGED appends
                   ELSE /\ saved' = "none"
                        /\ justCreated' = FALSE
                        /\ UNCHANGED <<fs, notes, note_count, selectedNote, mode,
                                       touched, allSaved, creates, appends>>
         ELSE /\ NoPrompt
              /\ justCreated' = FALSE
              /\ IF "KEY_A" \in k
                 THEN LET v == ViewNotes(mode, selectedNote, note_count)
                      IN  mode' = v.mode /\ selectedNote' = v.selectedNote
                 ELSE UNCHANGED <<mode, selectedNote>>
              /\ UNCHANGED <<fs, notes, note_count, touched, allSaved, creates, appends>>

\* the NoteList handlers with keys k
ListBody(k) ==
    /\ NoPrompt
    /\ selectedNote' \in ListNav(selectedNote, note_count, k)
    /\ mode' = ListMode(mode, selectedNote', k)
    /\ justCreated' = FALSE
    /\ UNCHANGED <<fs, notes, note_count, selectedMenu, touched, allSaved,
                   creates, appends>>

\* the ViewNote handlers with keys k
ViewBody(k) ==
    /\ mode' = ViewBack(mode, selectedNote, note_count, k)
    /\ justCreated' = (justCreated /\ mode' = "MODE_VIEW_NOTE")
    /\ IF "KEY_A" \in k
       THEN \E p \in LinePrompt :
              /\ button' = p[1]
              /\ text' = p[2]
              /\ IF LineAccepted(p[1])
                 THEN \E mk \in MkChoices :
                      LET a == AppendToSelected(notes, fs, selectedNote, p[2], mk)
                      IN  /\ appends < MaxAppends
                          /\ notes' = a.notes
                          /\ fs' = a.fs
                          /\ saved' = SaveOutcome(fs, a.notes[selectedNote].title, mk)
                          /\ touched' = touched \cup {selectedNote}
                          /\ allSaved' = (allSaved /\ saved' = "ok")
                          /\ appends' = appends + 1
                 ELSE /\ saved' = "none"
                      /\ UNCHANGED <<fs, notes, touched, allSaved, appends>>
       ELSE /\ NoPrompt
            /\ UNCHANGED <<fs, notes, touched, allSaved, appends>>
    /\ UNCHANGED <<note_count, selectedMenu, selectedNote, creates>>

\* one pass of the loop body with keys k: the break, or the handlers of the
\* mode the frame starts in
FrameBody(k) ==
    IF ShouldBreak(mode, k)
    THEN /\ pc' = "cleanup"
         /\ NoPrompt
         /\ UNCHANGED <<progVars, histVars>>
    ELSE /\ pc' = "loop"
         /\ \/ mode = "MODE_MENU" /\ MenuBody(k)
            \/ mode = "MODE_NOTE_LIST" /\ ListBody(k)
            \/ mode = "MODE_VIEW_NOTE" /\ ViewBody(k)

MenuFrame ==
    /\ pc = "loop" /\ mode = "MODE_MENU"
    /\ running' = TRUE
    /\ \E k \in SUBSET Keys : FrameBody(k)
    /\ UNCHANGED call

NoteListFrame ==
    /\ pc = "loop" /\ mode = "MODE_NOTE_LIST"
    /\ running' = TRUE
    /\ \E k \in SUBSET Keys : FrameBody(k)
    /\ UNCHANGED call

ViewNoteFrame ==
    /\ pc = "loop" /\ mode = "MODE_VIEW_NOTE"
    /\ running' = TRUE
    /\ \E k \in SUBSET Keys : FrameBody(k)
    /\ UNCHANGED call

Next == Load \/ AptClose \/ MenuFrame \/ NoteListFrame \/ ViewNoteFrame

Spec == Init /\ [][Next]_vars

---------------------------------------------------------------------------
(* The helpers called directly: a truncating copy into a buffer of any       *)
(* capacity, and a save_note whose file the next start of the program loads. *)

\* largest destination capacity of a direct safe_string_copy
MaxCap == 3

\* "", "a", "ab", ... up to one byte more than the largest capacity
CopySources == { [i \in 1..n |-> 96 + i] : n \in 0..(MaxCap + 1) }

\* what the program started on the directory can call save_note with: the
\* title of a loaded note with its content, as it is or with a line added, or
\* while the store has room a title from the prompt with the content of a
\* new note, empty or with a line added
SaveArgs(disk) ==
    LET r == load_notes(disk, [i \in 0..(MAX_NOTES - 1) |-> EmptyNote])
    IN  UNION { {<<r.notes[i].title, r.notes[i].content>>,
                     <<r.notes[i].title, append_to_note(r.notes[i].content, strX)>>} :
                   i \in 0..(r.note_count - 1) }
        \cup (IF r.note_count < MAX_NOTES
              THEN (TitleInputs \ {<<>>}) \X {<<>>, strX}
              ELSE {})

\* a directory of MAX_NOTES files whose names are longer than a title
LongNames ==
    [exists |-> TRUE, locked |-> FALSE, entries |->
        [i \in 1..MAX_NOTES |-> Reg(T31 \o <<99, 48 + i>>, strY)]]

\* a directory of one file, its name longer than a title and its data longer
\* than the content buffer
LongNameBigFile ==
    [exists |-> TRUE, locked |-> FALSE, entries |->
        << Reg(T31 \o strA, Rep(120, NOTE_CONTENT_LEN + 1)) >>]

HelperDisks == InitialDisks \cup {LongNames, LongNameBigFile}

HelperInit ==
    /\ pc = "call"
    /\ running = TRUE
    /\ fs \in HelperDisks
    /\ notes = [i \in 0..(MAX_NOTES - 1) |-> EmptyNote]
    /\ note_count = 0
    /\ selectedMenu = 0
    /\ selectedNote = -1
    /\ mode = "MODE_MENU"
    /\ button = "-"
    /\ text = <<>>
    /\ saved = "none"
    /\ justCreated = FALSE
    /\ touched = {}
    /\ allSaved = TRUE
    /\ creates = 0
    /\ appends = 0
    /\ call = NoCall

\* safe_string_copy(dest, src, dest_size) on a buffer holding dest
CopyCall ==
    /\ pc = "call"
    /\ \E c \in 0..MaxCap, src \in CopySources, dest \in {<<>>, strX} :
          call' = [fn |-> "safe_string_copy", dest_size |-> c, src |-> src,
                   old |-> dest, dest |-> safe_string_copy(dest, src, c)]
    /\ UNCHANGED <<pc, running, progVars, button, text, saved, histVars>>

\* save_note(title, content), after which the program is started again
SaveCall ==
    /\ pc = "call"
    /\ \E a \in SaveArgs(fs), mk \in MkChoices :
          /\ fs' = save_note(fs, a[1], a[2], mk)
          /\ call' = [fn |-> "save_note", title |-> a[1], content |-> a[2],
                      opened |-> SaveOutcome(fs, a[1], mk) = "ok",
                      fresh |-> EntryIndex(fs.entries, a[1]) = 0]
    /\ pc' = "load"
    /\ UNCHANGED <<running, notes, note_count, selectedMenu, selectedNote, mode,
                   button, text, saved, histVars>>

HelperNext == CopyCall \/ SaveCall \/ Load

HelperSpec == HelperInit /\ [][HelperNext]_vars

---------------------------------------------------------------------------
(* Vocabulary of the properties *)

\* the step is one pass of the loop body
FrameStep == pc = "loop" /\ running'

\* the step is a frame in which the title prompt returned
TitlePromptStep == FrameStep /\ mode = "MODE_MENU" /\ button' # "-"

\* the step is a frame in which the add-line prompt returned
LinePromptStep == FrameStep /\ mode = "MODE_VIEW_NOTE" /\ button' # "-"

\* the regular file of that name in the directory holds exactly data
FileHolds(disk, name, data) ==
    /\ disk.exists
    /\ \E i \in 1..Len(disk.entries) :
          /\ disk.entries[i].d_name = name
          /\ disk.entries[i].d_type = "DT_REG"
          /\ disk.entries[i].data = data

StoreIndices == 0..(note_count - 1)

\* the step is the load_notes() of a start of the program
LoadStep == pc = "load" /\ pc' = "loop"

\* the first n bytes of s, or all of s if it is shorter
Prefix(s, n) == SubSeq(s, 1, Min(Len(s), n))

\* the positions in the directory of the regular files that open for reading
LoadableFiles(entries) ==
    {e \in 1..Len(entries) : entries[e].d_type = "DT_REG" /\ entries[e].readable}

\* the position of the file with j such files before it
NthLoadable(entries, j) ==
    CHOOSE e \in LoadableFiles(entries) :
        Cardinality({d \in LoadableFiles(entries) : d < e}) = j

---------------------------------------------------------------------------
(* Properties *)

\* C1: in every reachable state selectedNote is -1 or an index i with
\* 0 <= i < note_count.
SelectedNoteInRange ==
    selectedNote = -1 \/ (0 <= selectedNote /\ selectedNote < note_count)

\* a note was created into the last slot of the store and is selected
SelectedNoteInRange_Witness ==
    /\ pc = "loop" /\ justCreated
    /\ note_count = MAX_NOTES
    /\ selectedNote = MAX_NOTES - 1

\* C2: whenever mode is NoteList the store holds at least one note, so the
\* modulo by note_count of the up and down handlers never divides by zero.
ListNavigationGuarded ==
    mode = "MODE_NOTE_LIST" => note_count > 0

\* the list is open on a store that was loaded empty
ListNavigationGuarded_Witness ==
    /\ pc = "loop" /\ mode = "MODE_NOTE_LIST"
    /\ creates > 0 /\ note_count = creates

\* C3: note_count stays within 0..MAX_NOTES, and a title prompt accepted
\* while note_count is MAX_NOTES creates nothing: note_count stays MAX_NOTES.
CountWithinCapacity ==
    /\ [](0 <= note_count /\ note_count <= MAX_NOTES)
    /\ [][(TitlePromptStep /\ button' = "SWKBD_BUTTON_RIGHT" /\ note_count = MAX_NOTES)
            => (note_count' = MAX_NOTES /\ notes' = notes)]_vars

\* a title was accepted while the store was full
CountWithinCapacity_Witness ==
    /\ pc = "loop" /\ mode = "MODE_MENU"
    /\ button = "SWKBD_BUTTON_RIGHT" /\ Len(text) > 0
    /\ note_count = MAX_NOTES

\* C4: an accepted line of length N appended to content of length L gives
\* the old content, a single '\n' if L > 0, then the line, exactly when
\* L + N + 2 < NOTE_CONTENT_LEN, and leaves the content unchanged otherwise.
AppendLineContract ==
    [][(LinePromptStep /\ button' = "SWKBD_BUTTON_RIGHT") =>
        LET old == notes[selectedNote].content
            L   == Len(old)
            N   == Len(text')
        IN  notes'[selectedNote].content =
                IF L + N + 2 < NOTE_CONTENT_LEN
                THEN old \o (IF L > 0 THEN <<NL>> ELSE <<>>) \o text'
                ELSE old]_vars

\* an empty line was appended to a note with two bytes of room left
AppendLineContract_Witness ==
    /\ pc = "loop" /\ selectedNote >= 0
    /\ button = "SWKBD_BUTTON_RIGHT" /\ text = <<>> /\ appends > 0
    /\ LET c == notes[selectedNote].content
       IN  Len(c) = NOTE_CONTENT_LEN - 2 /\ c[Len(c)] = NL

\* C5: a title prompt accepted with a non-empty title while note_count <
\* MAX_NOTES stores a note with that title (cut to TITLE_LEN - 1 bytes) and
\* empty content at index note_count, adds one to note_count, selects that
\* index, enters ViewNote and, if the save opened its file, leaves an empty
\* file of that name.
CreateAccepted ==
    [][(TitlePromptStep /\ button' = "SWKBD_BUTTON_RIGHT" /\ Len(text') > 0
            /\ note_count < MAX_NOTES) =>
        /\ note_count' = note_count + 1
        /\ notes'[note_count] =
              [title   |-> SubSeq(text', 1, Min(Len(text'), TITLE_LEN - 1)),
               content |-> <<>>]
        /\ selectedNote' = note_count
        /\ mode' = "MODE_VIEW_NOTE"
        /\ (saved' = "ok" => FileHolds(fs', text', <<>>))]_vars

\* a note with a title of TITLE_LEN - 1 bytes was created and saved
CreateAccepted_Witness ==
    /\ pc = "loop" /\ justCreated /\ saved = "ok"
    /\ button = "SWKBD_BUTTON_RIGHT" /\ text = T31
    /\ mode = "MODE_VIEW_NOTE"
    /\ notes[selectedNote].title = T31

\* C6: a title prompt that is cancelled, or returns an empty title, or
\* returns while note_count is MAX_NOTES, changes neither the notes,
\* note_count, selectedNote nor the directory, and leaves mode at Menu.
CreateRejected ==
    [][(TitlePromptStep /\ ~(button' = "SWKBD_BUTTON_RIGHT" /\ Len(text') > 0
                               /\ note_count < MAX_NOTES)) =>
        /\ UNCHANGED <<notes, note_count, selectedNote, fs>>
        /\ mode' = "MODE_MENU"]_vars

\* an empty title was accepted while the store had room
CreateRejected_Witness ==
    /\ pc = "loop" /\ mode = "MODE_MENU"
    /\ button = "SWKBD_BUTTON_RIGHT" /\ text = <<>>
    /\ note_count < MAX_NOTES

\* C7: a back event in ViewNote leads to Menu if the viewed note is the one
\* just created and reached by New Note, and to NoteList otherwise.
BackFromViewNote ==
    [][\A k \in SUBSET Keys :
        (FrameStep /\ mode = "MODE_VIEW_NOTE" /\ "KEY_B" \in k /\ FrameBody(k)) =>
            mode' = IF justCreated THEN "MODE_MENU" ELSE "MODE_NOTE_LIST"]_vars

\* a frame changes nothing that the same frame without the quit signal
\* would not change
QuitIgnoredOutsideMenu ==
    (FrameStep /\ mode # "MODE_MENU") =>
        \A k \in SUBSET (Keys \ {"KEY_START"}) :
            FrameBody(k \cup {"KEY_START"}) => (pc' = "loop" /\ FrameBody(k))

\* C8 (as claimed): the loop is left only by a frame that starts in Menu with
\* the quit signal present, and a quit signal in a frame that starts in
\* NoteList or ViewNote neither ends the loop nor changes the state.
QuitOnlyInMenu_Original ==
    [][/\ (pc = "loop" /\ pc' = "cleanup") =>
            (running' /\ mode = "MODE_MENU"
                /\ \E k \in SUBSET Keys : "KEY_START" \in k /\ FrameBody(k))
       /\ QuitIgnoredOutsideMenu]_vars

\* C8: a frame leaves the loop only if it starts in Menu with the
\* quit signal present (the loop is otherwise left only when aptMainLoop()
\* returns false, before any frame), and a quit signal in a frame that starts
\* in NoteList or ViewNote neither ends the loop nor changes the state.
QuitOnlyInMenu ==
    [][/\ (FrameStep /\ pc' = "cleanup") =>
            (mode = "MODE_MENU"
                /\ \E k \in SUBSET Keys : "KEY_START" \in k /\ FrameBody(k))
       /\ QuitIgnoredOutsideMenu]_vars

\* the loop was left by a frame, with notes in the store
QuitOnlyInMenu_Witness ==
    pc = "cleanup" /\ running /\ mode = "MODE_MENU" /\ appends > 0

\* C9: after an accepted add-line prompt whose save opened its file, the
\* file named by the selected note's title holds exactly that note's content,
\* whether or not the line fitted.
AppendPersisted ==
    [][(LinePromptStep /\ button' = "SWKBD_BUTTON_RIGHT" /\ saved' = "ok") =>
        FileHolds(fs', notes'[selectedNote].title, notes'[selectedNote].content)]_vars

\* a line that did not fit was accepted and the note was saved
AppendPersisted_Witness ==
    /\ pc = "loop" /\ selectedNote >= 0
    /\ button = "SWKBD_BUTTON_RIGHT" /\ text = strX /\ saved = "ok"
    /\ notes[selectedNote].content = Rep(120, NOTE_CONTENT_LEN - 3)

\* the note at index i has exactly one file, named by its title and holding
\* its content
OneFileFor(i) ==
    /\ FileHolds(fs, notes[i].title, notes[i].content)
    /\ Cardinality({e \in 1..Len(fs.entries) :
                        fs.entries[e].d_name = notes[i].title}) = 1

\* C10 (as claimed): as long as every save opened its file, every note that
\* was created or appended to has exactly one file, named by its title and
\* holding its content.
TouchedNotesOnDisk_Original ==
    allSaved => \A i \in touched : OneFileFor(i)

\* no other note of the store has a title naming the same file
TitleUnshared(i) ==
    \A j \in StoreIndices : j # i => notes[j].title # notes[i].title

\* C10: as long as every save opened its file, every note that was
\* created or appended to, and whose title names a file that no other note's
\* title in the store names, has exactly one file, named by its title and
\* holding its content.
TouchedNotesOnDisk ==
    allSaved => \A i \in touched : TitleUnshared(i) => OneFileFor(i)

\* a created note and an appended note, titles unshared, both saved
TouchedNotesOnDisk_Witness ==
    /\ allSaved /\ creates > 0 /\ appends > 0
    /\ Cardinality(touched) = 2
    /\ \A i \in touched : TitleUnshared(i)
    /\ \E i \in touched : Len(notes[i].content) > 1

\* the save_note called directly opened a file that no entry named before
FreshSave ==
    /\ call.fn = "save_note" /\ call.opened /\ call.fresh
    /\ Len(call.content) <= NOTE_CONTENT_LEN - 1

\* the store holds a note with the title and the content that were saved
SavedNoteLoaded(ns, n) ==
    \E i \in 0..(n - 1) : ns[i].title = call.title /\ ns[i].content = call.content

SavedWithinCapacity ==
    LET e == EntryIndex(fs.entries, call.title)
    IN  Cardinality({d \in LoadableFiles(fs.entries) : d < e}) < MAX_NOTES

CancelledAppend ==
    [][(LinePromptStep /\ button' = "SWKBD_BUTTON_LEFT")
            => UNCHANGED <<notes, note_count, selectedNote, fs>>]_vars

\* the add-line prompt of a note with content was cancelled
CancelledAppend_Witness ==
    /\ pc = "loop" /\ mode = "MODE_VIEW_NOTE"
    /\ button = "SWKBD_BUTTON_LEFT"
    /\ Len(notes[selectedNote].content) > 0

\* C14: in NoteList with note_count = n > 0 and selectedNote = i, a frame
\* with the up event alone sets selectedNote to (i - 1 + n) mod n and a frame
\* with the down event alone sets it to (i + 1) mod n; mode stays NoteList
\* and the notes are unchanged.
ListSelectionWraps ==
    [][(FrameStep /\ mode = "MODE_NOTE_LIST" /\ note_count > 0) =>
        /\ FrameBody({"KEY_UP"}) =>
              /\ selectedNote' = (selectedNote - 1 + note_count) % note_count
              /\ mode' = "MODE_NOTE_LIST" /\ notes' = notes
        /\ FrameBody({"KEY_DOWN"}) =>
              /\ selectedNote' = (selectedNote + 1) % note_count
              /\ mode' = "MODE_NOTE_LIST" /\ notes' = notes]_vars

\* the last of ten loaded notes is selected in the list
ListSelectionWraps_Witness ==
    /\ pc = "loop" /\ mode = "MODE_NOTE_LIST"
    /\ creates = 0 /\ note_count = MAX_NOTES
    /\ selectedNote = MAX_NOTES - 1

\* C16: a frame that starts in ViewNote with a confirm event ends in
\* ViewNote whatever other events the frame holds, so a line is appended
\* only in a frame that ends in ViewNote.
ConfirmStaysInViewNote ==
    [][/\ (FrameStep /\ mode = "MODE_VIEW_NOTE") =>
            \A k \in SUBSET Keys :
                ("KEY_A" \in k /\ FrameBody(k)) => mode' = "MODE_VIEW_NOTE"
       /\ (LinePromptStep /\ button' = "SWKBD_BUTTON_RIGHT")
            => mode' = "MODE_VIEW_NOTE"]_vars

\* s is the beginning of t
IsPrefix(s, t) == Len(s) <= Len(t) /\ SubSeq(t, 1, Len(s)) = s

\* C17: after the startup load no step decreases note_count, changes the
\* title of a note of the store, or changes its content other than by
\* extending it (the old content is the beginning of the new).
NotesOnlyGrow ==
    [][pc = "loop" =>
        /\ note_count' >= note_count
        /\ \A i \in StoreIndices :
              /\ notes'[i].title = notes[i].title
              /\ IsPrefix(notes[i].content, notes'[i].content)]_vars

\* a note was created after others and a line was added to content
NotesOnlyGrow_Witness ==
    /\ pc = "loop" /\ creates > 0 /\ appends > 0 /\ note_count >= 3
    /\ \E i \in StoreIndices :
          /\ Len(notes[i].content) >= 3
          /\ notes[i].content[2] = NL

\* C18: whenever mode is NoteList or ViewNote, selectedNote is the index of
\* a note of the store (0 <= selectedNote < note_count), and a confirm event
\* in NoteList leads to ViewNote.
SelectionValidInNoteModes ==
    /\ [](mode \in {"MODE_NOTE_LIST", "MODE_VIEW_NOTE"}
            => (0 <= selectedNote /\ selectedNote < note_count))
    /\ [][(FrameStep /\ mode = "MODE_NOTE_LIST") =>
            \A k \in SUBSET Keys :
                ("KEY_A" \in k /\ FrameBody(k)) => mode' = "MODE_VIEW_NOTE"]_vars

\* a loaded note other than the first was opened from the list
SelectionValidInNoteModes_Witness ==
    /\ pc = "loop" /\ mode = "MODE_VIEW_NOTE"
    /\ creates = 0 /\ ~justCreated
    /\ selectedNote > 0 /\ button = "-"

\* every slot of the notes array other than slot i is as it was
OtherSlotsKept(i) ==
    \A j \in 0..(MAX_NOTES - 1) : j # i => notes'[j] = notes[j]

\* C20: an accepted add-line prompt changes at most the content of the note
\* at selectedNote, and a creation writes only the slot at the old
\* note_count: the title and content of every other note are unchanged, also
\* when notes share a title.
OtherNotesUntouched ==
    [][/\ (LinePromptStep /\ button' = "SWKBD_BUTTON_RIGHT") =>
            /\ OtherSlotsKept(selectedNote)
            /\ notes'[selectedNote].title = notes[selectedNote].title
       /\ (TitlePromptStep /\ note_count' # note_count) =>
            OtherSlotsKept(note_count)]_vars

\* a note was created with the title of a loaded note, and a line was added
\* to one of the two only
OtherNotesUntouched_Witness ==
    /\ pc = "loop" /\ creates > 0 /\ appends > 0
    /\ \E i, j \in StoreIndices :
          /\ i < j
          /\ notes[i].title = notes[j].title
          /\ notes[i].content # notes[j].content
          /\ notes[selectedNote].content # <<>>
          /\ \E m \in {i, j} : notes[m].content = <<>>

\* C15: safe_string_copy into a destination of capacity c >= 1 leaves a
\* string of at most c - 1 bytes, the first min(len(s), c - 1) bytes of the
\* source s; if len(s) < c it is s itself.
CopyTruncates ==
    (call.fn = "safe_string_copy" /\ call.dest_size >= 1) =>
        LET c == call.dest_size
            s == call.src
            r == call.dest
        IN  /\ Len(r) <= c - 1
            /\ r = SubSeq(s, 1, Min(Len(s), c - 1))
            /\ (Len(s) < c => r = s)
            /\ \A i \in 1..Len(r) : r[i] # 0

\* a source as long as the destination was cut by one byte
CopyTruncates_Witness ==
    /\ call.fn = "safe_string_copy"
    /\ call.dest_size >= 2
    /\ Len(call.src) = call.dest_size
    /\ Len(call.dest) = call.dest_size - 1

\* C19: every note of the store has a title of 1..TITLE_LEN - 1 bytes and
\* content of at most NOTE_CONTENT_LEN - 1 bytes, so that the terminator of
\* either lies inside its buffer, and content that an append has changed has
\* at most NOTE_CONTENT_LEN - 2 bytes.
ContentWithinBuffer ==
    /\ [](\A i \in StoreIndices :
            /\ 1 <= Len(notes[i].title) /\ Len(notes[i].title) <= TITLE_LEN - 1
            /\ Len(notes[i].content) <= NOTE_CONTENT_LEN - 1)
    /\ [][(LinePromptStep /\ notes'[selectedNote].content # notes[selectedNote].content)
            => Len(notes'[selectedNote].content) <= NOTE_CONTENT_LEN - 2]_vars

\* a note loaded from a file larger than the buffer fills it, and a line was
\* accepted for it
ContentWithinBuffer_Witness ==
    /\ pc = "loop" /\ appends > 0
    /\ selectedNote >= 0
    /\ Len(notes[selectedNote].content) = NOTE_CONTENT_LEN - 1

=============================================================================
